---------------------------- MODULE Spec2Model ----------------------------
(***************************************************************************)
(* Model of the heat-check dashboards (src/who_is_hot_app.py, the          *)
(* percentage variant, and src/heat_check.py, the standard-deviation       *)
(* variant): the two sliders, get_recent_stats and analyze_trend.          *)
(*                                                                         *)
(* Numbers.  The statistics of a game are naturals; means are exact        *)
(* rationals [nan, num, den] (den = 0 stands for an infinity, nan for      *)
(* pandas' NaN) and a standard deviation is kept as the rational under the *)
(* square root, so every comparison the code makes is decided exactly.     *)
(* The binary rounding of float64 is not modelled.                         *)
(*                                                                         *)
(* Dates.  GAME_DATE is the chronological ordinal of the game's day: the   *)
(* value pd.to_datetime orders by.  Its textual form is not modelled.      *)
(***************************************************************************)
EXTENDS Integers, Sequences, FiniteSets, TLC

VARIABLES
    num_games,       \* the "How many recent games" slider
    recent_slider,   \* arguments of the recent_check slider call
    recent_check,    \* the value that slider returns
    script_ok,       \* FALSE when the script run was stopped by the slider call
    selected_stats,  \* the multiselect's value, in selection order
    reg_df,          \* provider: regular-season game log, newest first
    po_df,           \* provider: playoff game log, newest first
    player_stats,    \* the table get_recent_stats returned
    fetched_by,      \* which get_recent_stats produced player_stats
    method,          \* which analyze_trend ran last: "none", "pct", "std"
    outcome,         \* how it ended: "none", "warning", "analyzed"
    player_name,     \* the name the last analyze_trend call was given
    st_out,          \* what analyze_trend sent to Streamlit, in order
    recent_games,    \* locals of the last analyze_trend call
    baseline_games,
    recent_avg,
    baseline_avg,
    baseline_std,
    app,             \* which script runs: "who_is_hot" or "heat_check" ("none": no script)
    player1,         \* the two name inputs
    player2,
    player1_id,      \* what find_player_id returned in the Analyze branch
    player2_id,
    game_logs,       \* provider: the season's logs of each player id
    button,          \* st.button('Analyze') of the current script run
    page,            \* what the Analyze branch put on the page, in order
    player1_stats,   \* the tables the Analyze branch fetched (<<>>: none)
    player2_stats

vars == <<num_games, recent_slider, recent_check, script_ok, selected_stats,
          reg_df, po_df, player_stats, fetched_by, method, outcome, player_name, st_out,
          recent_games, baseline_games, recent_avg, baseline_avg, baseline_std,
          app, player1, player2, player1_id, player2_id, game_logs, button, page,
          player1_stats, player2_stats>>

---------------------------------------------------------------------------
(* Bounds of the model *)

\* longest table handed to analyze_trend
MaxLen == 4
\* largest recent window tried by the trend specification
MaxR == 2
\* most games a provider log holds (regular season plus playoffs)
MaxGames == 3

\* the statistic columns carried by the model (the source has four options)
Columns == {"PTS", "REB"}
\* the values a column takes: PTS steps of 5% around 20, REB nothing or one
ColumnValues(c) == IF c = "PTS" THEN {19, 20, 21} ELSE {0, 1}
PlayerNames == {"Player One"}

(* Program constants *)
NumGamesMin == 1
NumGamesMax == 20
NumGamesDefault == 5
RecentMin == 1
RecentDefault == 3

---------------------------------------------------------------------------
(* Small helpers *)

Min(a, b) == IF a < b THEN a ELSE b
Max(a, b) == IF a > b THEN a ELSE b
Abs(a) == IF a < 0 THEN -a ELSE a
Range(s) == {s[i] : i \in 1..Len(s)}

RECURSIVE GCD(_, _)
GCD(a, b) == IF b = 0 THEN a ELSE GCD(b, a % b)

RECURSIVE SumSeq(_)
SumSeq(xs) == IF Len(xs) = 0 THEN 0 ELSE Head(xs) + SumSeq(Tail(xs))

---------------------------------------------------------------------------
(* Exact numbers standing for the float64 values of the code *)

NaN == [nan |-> TRUE, num |-> 0, den |-> 1]

\* n/d in lowest terms, d >= 0; d = 0 is +inf or -inf (0/0 is NaN)
Rat(n, d) ==
    IF d = 0
    THEN IF n = 0 THEN NaN
         ELSE [nan |-> FALSE, num |-> (IF n > 0 THEN 1 ELSE -1), den |-> 0]
    ELSE LET g == GCD(Abs(n), d)
         IN  [nan |-> FALSE, num |-> n \div g, den |-> d \div g]

RatOf(n) == Rat(n, 1)

RatNeg(a) == IF a.nan THEN NaN ELSE [a EXCEPT !.num = -a.num]

RatAdd(a, b) ==
    IF a.nan \/ b.nan THEN NaN
    ELSE IF a.den = 0 /\ b.den = 0
         THEN (IF a.num = b.num THEN a ELSE NaN)
    ELSE IF a.den = 0 THEN a
    ELSE IF b.den = 0 THEN b
    ELSE Rat(a.num * b.den + b.num * a.den, a.den * b.den)

RatSub(a, b) == RatAdd(a, RatNeg(b))

RatMul(a, b) ==
    IF a.nan \/ b.nan THEN NaN
    ELSE Rat(a.num * b.num, a.den * b.den)

\* float division: x/0 is an infinity or NaN, never an exception
RatDiv(a, b) ==
    IF a.nan \/ b.nan THEN NaN
    ELSE IF b.num < 0 THEN Rat(-(a.num * b.den), a.den * (-b.num))
    ELSE Rat(a.num * b.den, a.den * b.num)

\* comparisons with NaN are False
RatEq(a, b) == ~a.nan /\ ~b.nan /\ a.num = b.num /\ a.den = b.den
RatGt(a, b) == ~a.nan /\ ~b.nan /\ ~RatEq(a, b) /\ a.num * b.den > b.num * a.den
RatLt(a, b) == RatGt(b, a)

\* a standard deviation: the square root of the rational sq (NaN when undefined)
RootNaN == [nan |-> TRUE, sq |-> NaN]
Root(v) == [nan |-> v.nan, sq |-> v]
RootIsNa(s) == s.nan
RootIsZero(s) == ~s.nan /\ s.sq.num = 0
\* d > sqrt(sq)   and   d < -sqrt(sq)
GtRoot(d, s) == ~d.nan /\ ~s.nan /\ d.num > 0 /\ RatGt(RatMul(d, d), s.sq)
LtNegRoot(d, s) == ~d.nan /\ ~s.nan /\ d.num < 0 /\ RatGt(RatMul(d, d), s.sq)

---------------------------------------------------------------------------
(* pandas operations on a table (a sequence of rows) *)

\* DataFrame.head(n) is iloc[:n]
DfHead(df, n) ==
    IF n >= 0 THEN SubSeq(df, 1, Min(n, Len(df)))
    ELSE SubSeq(df, 1, Max(Len(df) + n, 0))

\* DataFrame.tail(n) is iloc[-n:], and empty for n = 0
DfTail(df, n) ==
    IF n = 0 THEN <<>>
    ELSE IF n > 0 THEN SubSeq(df, Max(Len(df) - n, 0) + 1, Len(df))
    ELSE SubSeq(df, Min(-n, Len(df)) + 1, Len(df))

DfColumn(df, c) == [i \in 1..Len(df) |-> df[i][c]]

\* Series.mean(): NaN for an empty column
SeriesMean(xs) == IF Len(xs) = 0 THEN NaN ELSE Rat(SumSeq(xs), Len(xs))

RECURSIVE SumSqDev(_, _)
SumSqDev(xs, m) ==
    IF Len(xs) = 0 THEN RatOf(0)
    ELSE LET dev == RatSub(m, RatOf(Head(xs)))
         IN  RatAdd(RatMul(dev, dev), SumSqDev(Tail(xs), m))

\* seeded fault: the population standard deviation (ddof = 0)
SeriesStdPopulation(xs) ==
    IF Len(xs) < 1 THEN RootNaN
    ELSE Root(RatDiv(SumSqDev(xs, SeriesMean(xs)), RatOf(Len(xs))))

\* Series.std(), ddof = 1: NaN when fewer than two values
SeriesStd(xs) ==
    IF Len(xs) < 2 THEN RootNaN
    ELSE Root(RatDiv(SumSqDev(xs, SeriesMean(xs)), RatOf(Len(xs) - 1)))

\* df[selected_stats].mean() and .std(): one entry per selected column
DfMean(df, selected) == [s \in Range(selected) |-> SeriesMean(DfColumn(df, s))]
DfStd(df, selected) == [s \in Range(selected) |-> SeriesStd(DfColumn(df, s))]

---------------------------------------------------------------------------
(* analyze_trend *)

Warning(name) ==
    [kind |-> "warning", player |-> name, stat |-> "", label |-> ""]
Subheader(name) ==
    [kind |-> "subheader", player |-> name, stat |-> "", label |-> ""]
Markdown(comment) ==
    [kind |-> "markdown", player |-> "", stat |-> comment.stat, label |-> comment.label]
Comment(stat, label) == [stat |-> stat, label |-> label]

\* threshold = 0.05
Threshold == Rat(1, 20)

\* seeded fault: the guard one game short
NotEnoughGamesOffByOne(stats, recent) == Len(stats) < recent

\* the guard of the early return
NotEnoughGames(stats, recent) == Len(stats) < recent + 1

\* seeded fault: the recent window taken from the top of the table
RecentGamesFromTop(stats, recent) == DfHead(stats, recent)

RecentGames(stats, recent) == DfTail(stats, recent)
BaselineGames(stats, recent) == DfHead(stats, Len(stats) - recent)

\* seeded fault: the thresholds included
PctLabelInclusive(diff) ==
    IF RatGt(diff, Threshold) \/ RatEq(diff, Threshold) THEN "Heating Up"
    ELSE IF RatLt(diff, RatNeg(Threshold)) \/ RatEq(diff, RatNeg(Threshold))
         THEN "Cooling Down"
    ELSE "Stable"

\* the if / elif / else of the percentage variant
PctLabel(diff) ==
    IF RatGt(diff, Threshold) THEN "Heating Up"
    ELSE IF RatLt(diff, RatNeg(Threshold)) THEN "Cooling Down"
    ELSE "Stable"

\* the if / elif / else of the standard-deviation variant
StdLabel(diff, std_val) ==
    IF GtRoot(diff, std_val) THEN "Heating Up"
    ELSE IF LtNegRoot(diff, std_val) THEN "Cooling Down"
    ELSE "Stable"

\* seeded fault: every statistic compared with the baseline of the first one selected
RECURSIVE PctCommentsSharedBaseline(_, _, _, _, _)
PctCommentsSharedBaseline(selected, i, r_avg, b_avg, comments) ==
    IF i > Len(selected) THEN comments
    ELSE LET stat == selected[i]
             baseline_val == b_avg[selected[1]]
         IN  IF RatEq(baseline_val, RatOf(0))
             THEN PctCommentsSharedBaseline(selected, i + 1, r_avg, b_avg, comments)
             ELSE LET diff == RatDiv(RatSub(r_avg[stat], baseline_val), baseline_val)
                  IN  PctCommentsSharedBaseline(selected, i + 1, r_avg, b_avg,
                                  Append(comments, Comment(stat, PctLabel(diff))))

\* the loop over selected_stats, percentage variant, from position i on
RECURSIVE PctComments(_, _, _, _, _)
PctComments(selected, i, r_avg, b_avg, comments) ==
    IF i > Len(selected) THEN comments
    ELSE LET stat == selected[i]
             baseline_val == b_avg[stat]
         IN  IF RatEq(baseline_val, RatOf(0))
             THEN PctComments(selected, i + 1, r_avg, b_avg, comments)
             ELSE LET diff == RatDiv(RatSub(r_avg[stat], baseline_val), baseline_val)
                  IN  PctComments(selected, i + 1, r_avg, b_avg,
                                  Append(comments, Comment(stat, PctLabel(diff))))

\* the loop over selected_stats, standard-deviation variant
RECURSIVE StdComments(_, _, _, _, _, _)
StdComments(selected, i, r_avg, b_avg, b_std, comments) ==
    IF i > Len(selected) THEN comments
    ELSE LET stat == selected[i]
             baseline_val == b_avg[stat]
             std_val == b_std[stat]
         IN  IF RootIsNa(std_val) \/ RootIsZero(std_val)
             THEN StdComments(selected, i + 1, r_avg, b_avg, b_std, comments)
             ELSE LET diff == RatSub(r_avg[stat], baseline_val)
                  IN  StdComments(selected, i + 1, r_avg, b_avg, b_std,
                                  Append(comments, Comment(stat, StdLabel(diff, std_val))))

\* the output loop: the heading, then one bullet per comment
Report(name, comments) ==
    <<Subheader(name)>> \o [i \in 1..Len(comments) |-> Markdown(comments[i])]

\* what a call that gets past the early return sends to Streamlit
PctReport(stats, name, selected, recent) ==
    LET recent_rows == RecentGames(stats, recent)
        baseline_rows == BaselineGames(stats, recent)
    IN  Report(name, PctComments(selected, 1, DfMean(recent_rows, selected),
                                 DfMean(baseline_rows, selected), <<>>))

StdReport(stats, name, selected, recent) ==
    LET recent_rows == RecentGames(stats, recent)
        baseline_rows == BaselineGames(stats, recent)
    IN  Report(name, StdComments(selected, 1, DfMean(recent_rows, selected),
                                 DfMean(baseline_rows, selected),
                                 DfStd(baseline_rows, selected), <<>>))

FetchUnchanged == UNCHANGED <<reg_df, po_df, player_stats, fetched_by>>
\* None, as find_player_id returns it
NoneId == 0
HandlerUnchanged ==
    UNCHANGED <<app, player1, player2, player1_id, player2_id, game_logs, button, page,
                player1_stats, player2_stats>>
\* a script run started by another widget: the button returns False
RerunWithoutButton ==
    /\ button' = FALSE
    /\ page' = <<>>
    /\ player1_id' = NoneId
    /\ player2_id' = NoneId
    /\ player1_stats' = <<>>
    /\ player2_stats' = <<>>
    /\ UNCHANGED <<app, player1, player2, game_logs>>
UiUnchanged == UNCHANGED <<num_games, recent_slider, recent_check, script_ok, selected_stats>>

\* the early return: a warning, and nothing else happens
WarnAndReturn(name) ==
    /\ outcome' = "warning"
    /\ st_out' = <<Warning(name)>>
    /\ recent_games' = <<>>
    /\ baseline_games' = <<>>
    /\ recent_avg' = <<>>
    /\ baseline_avg' = <<>>
    /\ baseline_std' = <<>>

\* who_is_hot_app.analyze_trend(player_stats, player_name, selected_stats, recent_check)
analyze_trend_pct(name) ==
    /\ script_ok
    /\ method' = "pct"
    /\ player_name' = name
    /\ IF NotEnoughGames(player_stats, recent_check)
       THEN WarnAndReturn(name)
       ELSE LET recent == RecentGames(player_stats, recent_check)
                baseline == BaselineGames(player_stats, recent_check)
                r_avg == DfMean(recent, selected_stats)
                b_avg == DfMean(baseline, selected_stats)
            IN  /\ outcome' = "analyzed"
                /\ recent_games' = recent
                /\ baseline_games' = baseline
                /\ recent_avg' = r_avg
                /\ baseline_avg' = b_avg
                /\ baseline_std' = <<>>
                /\ st_out' = PctReport(player_stats, name, selected_stats, recent_check)
    /\ FetchUnchanged
    /\ UiUnchanged
    /\ HandlerUnchanged

\* heat_check.analyze_trend(player_stats, player_name, selected_stats, recent_check)
analyze_trend_std(name) ==
    /\ script_ok
    /\ method' = "std"
    /\ player_name' = name
    /\ IF NotEnoughGames(player_stats, recent_check)
       THEN WarnAndReturn(name)
       ELSE LET recent == RecentGames(player_stats, recent_check)
                baseline == BaselineGames(player_stats, recent_check)
                r_avg == DfMean(recent, selected_stats)
                b_avg == DfMean(baseline, selected_stats)
                b_std == DfStd(baseline, selected_stats)
            IN  /\ outcome' = "analyzed"
                /\ recent_games' = recent
                /\ baseline_games' = baseline
                /\ recent_avg' = r_avg
                /\ baseline_avg' = b_avg
                /\ baseline_std' = b_std
                /\ st_out' = StdReport(player_stats, name, selected_stats, recent_check)
    /\ FetchUnchanged
    /\ UiUnchanged
    /\ HandlerUnchanged

---------------------------------------------------------------------------
(* The tables and selections the specifications draw from *)

Row(d, p, r) == [GAME_DATE |-> d, PTS |-> p, REB |-> r]

\* the tables of exactly n games, oldest first, on days 1..n
TablesOfLen(n) ==
    {[i \in 1..n |-> Row(i, ps[i], rs[i])] :
        ps \in [1..n -> ColumnValues("PTS")], rs \in [1..n -> ColumnValues("REB")]}

Tables == UNION {TablesOfLen(n) : n \in 0..MaxLen}

\* the values st.multiselect can return: the chosen options, in the order chosen
Selections ==
    {<<>>} \cup {<<c>> : c \in Columns}
           \cup {p \in {<<c, d>> : c \in Columns, d \in Columns} : p[1] # p[2]}

\* no script of the dashboard is running its Analyze branch
NoHandler ==
    /\ app = "none"
    /\ player1 = ""
    /\ player2 = ""
    /\ player1_id = NoneId
    /\ player2_id = NoneId
    /\ game_logs = <<>>
    /\ button = FALSE
    /\ page = <<>>
    /\ player1_stats = <<>>
    /\ player2_stats = <<>>

NoAnalysis ==
    /\ method = "none"
    /\ outcome = "none"
    /\ player_name = ""
    /\ st_out = <<>>
    /\ recent_games = <<>>
    /\ baseline_games = <<>>
    /\ recent_avg = <<>>
    /\ baseline_avg = <<>>
    /\ baseline_std = <<>>


---------------------------------------------------------------------------
(* The two sliders *)

TrendUnchanged ==
    UNCHANGED <<method, outcome, player_name, st_out, recent_games, baseline_games,
                recent_avg, baseline_avg, baseline_std>>

\* the arguments of the recent_check slider for a given num_games
RecentSliderArgs(n) ==
    [min_value |-> RecentMin, max_value |-> n - 1, value |-> Min(RecentDefault, n - 1)]

\* whether the arguments describe a slider: a non-empty range holding the default
SliderArgsValid(args) ==
    /\ args.min_value <= args.max_value
    /\ args.min_value <= args.value
    /\ args.value <= args.max_value

\* The user moves the num_games slider and the script runs again.  The
\* recent_check slider is keyed by its arguments: when they change it is a
\* new widget showing its default.  Arguments that describe no slider are
\* outside what the source decides: Streamlit either stops the script with
\* an exception or widens the range to hold the default and returns it.
move_num_games(n) ==
    /\ n \in NumGamesMin..NumGamesMax
    /\ n # num_games
    /\ num_games' = n
    /\ recent_slider' = RecentSliderArgs(n)
    /\ recent_check' = recent_slider'.value
    /\ IF SliderArgsValid(recent_slider')
       THEN script_ok' = TRUE
       ELSE script_ok' \in BOOLEAN
    /\ UNCHANGED selected_stats
    /\ FetchUnchanged
    /\ TrendUnchanged
    /\ RerunWithoutButton

\* The user moves the recent_check slider within its range.
move_recent_check(r) ==
    /\ script_ok
    /\ SliderArgsValid(recent_slider)
    /\ r \in recent_slider.min_value..recent_slider.max_value
    /\ r # recent_check
    /\ recent_check' = r
    /\ UNCHANGED <<num_games, recent_slider, script_ok, selected_stats>>
    /\ FetchUnchanged
    /\ TrendUnchanged
    /\ RerunWithoutButton

\* the first run of the script: both sliders at their defaults
UiAtStart ==
    /\ num_games = NumGamesDefault
    /\ recent_slider = RecentSliderArgs(NumGamesDefault)
    /\ recent_check = recent_slider.value
    /\ script_ok = TRUE
    /\ selected_stats = <<"PTS", "REB">>

InitSliders ==
    /\ UiAtStart
    /\ reg_df = <<>>
    /\ po_df = <<>>
    /\ player_stats = <<>>
    /\ fetched_by = "none"
    /\ NoAnalysis
    /\ NoHandler

NextSliders ==
    \/ \E n \in NumGamesMin..NumGamesMax : move_num_games(n)
    \/ \E r \in RecentMin..NumGamesMax : move_recent_check(r)

SpecSliders == InitSliders /\ [][NextSliders]_vars

---------------------------------------------------------------------------
(* get_recent_stats *)

\* insert a row into a table sorted by GAME_DATE (ascending or descending)
RECURSIVE InsertByDate(_, _, _)
InsertByDate(row, sorted, ascending) ==
    IF Len(sorted) = 0 THEN <<row>>
    ELSE IF (IF ascending THEN row.GAME_DATE < Head(sorted).GAME_DATE
                          ELSE row.GAME_DATE > Head(sorted).GAME_DATE)
         THEN <<row>> \o sorted
    ELSE <<Head(sorted)>> \o InsertByDate(row, Tail(sorted), ascending)

\* DataFrame.sort_values('GAME_DATE', ascending=...)
RECURSIVE SortByDate(_, _)
SortByDate(df, ascending) ==
    IF Len(df) = 0 THEN <<>>
    ELSE InsertByDate(Head(df), SortByDate(Tail(df), ascending), ascending)

\* df[::-1]
Reversed(df) == [i \in 1..Len(df) |-> df[Len(df) + 1 - i]]

\* heat_check.get_recent_stats: both logs, newest num_games, oldest first
HeatCheckRecentStats(reg, po, n) ==
    LET all_games == reg \o po
        newest_first == SortByDate(all_games, FALSE)
        latest == DfHead(newest_first, n)
    IN  SortByDate(latest, TRUE)

\* who_is_hot_app.get_recent_stats: the default (regular season) log only
WhoIsHotRecentStats(reg, n) == Reversed(DfHead(reg, n))

get_recent_stats_heat_check ==
    /\ script_ok
    /\ fetched_by = "none"
    /\ player_stats' = HeatCheckRecentStats(reg_df, po_df, num_games)
    /\ fetched_by' = "heat_check"
    /\ UNCHANGED <<reg_df, po_df>>
    /\ UiUnchanged
    /\ TrendUnchanged
    /\ HandlerUnchanged

get_recent_stats_who_is_hot ==
    /\ script_ok
    /\ fetched_by = "none"
    /\ player_stats' = WhoIsHotRecentStats(reg_df, num_games)
    /\ fetched_by' = "who_is_hot"
    /\ UNCHANGED <<reg_df, po_df>>
    /\ UiUnchanged
    /\ TrendUnchanged
    /\ HandlerUnchanged

\* The provider's logs of a season: nr regular-season games on days 1..nr
\* and np playoff games on the days after them, each log newest first.
LogsOf(nr, np) ==
    {[reg |-> [i \in 1..nr |-> Row(nr + 1 - i, ps[nr + 1 - i], rs[nr + 1 - i])],
      po  |-> [j \in 1..np |-> Row(nr + np + 1 - j, ps[nr + np + 1 - j],
                                   rs[nr + np + 1 - j])]] :
        ps \in [1..(nr + np) -> ColumnValues("PTS")],
        rs \in [1..(nr + np) -> ColumnValues("REB")]}

\* a player with playoff games has regular-season games
SeasonLogs ==
    UNION {LogsOf(q[1], q[2]) :
              q \in {c \in (0..MaxGames) \X (0..MaxGames) :
                         c[1] + c[2] <= MaxGames /\ (c[2] > 0 => c[1] > 0)}}

\* get_recent_stats is called once the script is past both sliders
InitFetch ==
    /\ num_games \in {n \in NumGamesMin..NumGamesMax : SliderArgsValid(RecentSliderArgs(n))}
    /\ recent_slider = RecentSliderArgs(num_games)
    /\ recent_check = recent_slider.value
    /\ script_ok = TRUE
    /\ selected_stats = <<"PTS", "REB">>
    /\ \E logs \in SeasonLogs : reg_df = logs.reg /\ po_df = logs.po
    /\ player_stats = <<>>
    /\ fetched_by = "none"
    /\ NoAnalysis
    /\ NoHandler

NextFetch ==
    \/ get_recent_stats_heat_check
    \/ get_recent_stats_who_is_hot

SpecFetch == InitFetch /\ [][NextFetch]_vars

---------------------------------------------------------------------------
(* The trend specification: analyze_trend on every bounded table, for every
   window the recent_check slider can give up to MaxR and every selection *)

InitTrend ==
    /\ num_games = NumGamesMax
    /\ recent_check \in RecentMin..MaxR
    /\ recent_slider = RecentSliderArgs(num_games)
    /\ script_ok = TRUE
    /\ selected_stats \in Selections
    /\ reg_df = <<>>
    /\ po_df = <<>>
    /\ player_stats \in Tables
    /\ fetched_by = "none"
    /\ NoAnalysis
    /\ NoHandler

NextTrend ==
    \/ \E name \in PlayerNames : method = "none" /\ analyze_trend_pct(name)
    \/ \E name \in PlayerNames : method = "none" /\ analyze_trend_std(name)

SpecTrend == InitTrend /\ [][NextTrend]_vars

---------------------------------------------------------------------------
(* The Analyze button *)

\* players.get_players(): the static roster
AllPlayers ==
    <<[id |-> 2544, full_name |-> "LeBron James"],
      [id |-> 201939, full_name |-> "Stephen Curry"]>>
PlayerIds == {AllPlayers[i].id : i \in 1..Len(AllPlayers)}

\* what the user can type into a name input
TextInputs == {"", "LeBron James", "stephen curry ", "Nobody"}

\* str.lower() on the names above
Lower(name) ==
    CASE name = "LeBron James" -> "lebron james"
      [] name = "Stephen Curry" -> "stephen curry"
      [] name = "Nobody" -> "nobody"
      [] OTHER -> name

\* heat_check.normalize_name on the names above: trimmed, lower case
NormalizeName(name) ==
    CASE name = "stephen curry " -> "stephen curry"
      [] OTHER -> Lower(name)

\* the comparison each script's find_player_id makes
NameMatches(script, full_name, name) ==
    IF script = "who_is_hot" THEN Lower(full_name) = Lower(name)
    ELSE NormalizeName(full_name) = NormalizeName(name)

\* find_player_id: the first roster entry that matches, else None
RECURSIVE FindPlayerId(_, _, _)
FindPlayerId(script, name, i) ==
    IF i > Len(AllPlayers) THEN [id |-> NoneId, full_name |-> ""]
    ELSE IF NameMatches(script, AllPlayers[i].full_name, name) THEN AllPlayers[i]
    ELSE FindPlayerId(script, name, i + 1)

\* get_recent_stats of the running script, on the provider's logs of one player
GetRecentStats(script, logs, n) ==
    IF script = "who_is_hot" THEN WhoIsHotRecentStats(logs.reg, n)
    ELSE HeatCheckRecentStats(logs.reg, logs.po, n)

\* analyze_trend of the running script: what it sends to Streamlit
TrendOutput(script, stats, name, selected, recent) ==
    IF NotEnoughGames(stats, recent) THEN <<Warning(name)>>
    ELSE IF script = "who_is_hot" THEN PctReport(stats, name, selected, recent)
    ELSE StdReport(stats, name, selected, recent)

\* one thing put on the page, for player who (1 or 2)
PageItem(kind, who, name) ==
    [kind |-> kind, who |-> who, player |-> name, stat |-> "", label |-> ""]
\* the output of an analyze_trend call, as items of the page
TrendItems(out, who) ==
    [i \in 1..Len(out) |->
        [kind |-> out[i].kind, who |-> who, player |-> out[i].player,
         stat |-> out[i].stat, label |-> out[i].label]]

\* the name tables, trends and charts are labelled with: who_is_hot_app uses the text
\* typed, heat_check the roster's spelling
ShownName(script, typed, found) ==
    IF script = "who_is_hot" THEN typed ELSE found.full_name

\* the else branch: both players valid; p2 says whether player2_id is truthy
ValidPlayersPage(script, typed1, typed2, name1, name2, stats1, stats2, p2, selected, recent) ==
    <<PageItem("fetch", 1, name1)>>
    \o (IF p2 THEN <<PageItem("fetch", 2, name2)>> ELSE <<>>)
    \o <<PageItem("image", 1, typed1)>>
    \o (IF p2 THEN <<PageItem("image", 2, typed2)>> ELSE <<>>)
    \o <<PageItem("table", 1, name1)>>
    \o (IF p2 THEN <<PageItem("table", 2, name2)>> ELSE <<>>)
    \o TrendItems(TrendOutput(script, stats1, name1, selected, recent), 1)
    \o (IF p2 THEN TrendItems(TrendOutput(script, stats2, name2, selected, recent), 2)
        ELSE <<>>)
    \o <<PageItem("chart", 1, name1)>>
    \o (IF p2 THEN <<PageItem("chart", 2, name2)>> ELSE <<>>)

\* seeded fault: player 2's name is checked before player 1's
AnalyzePagePlayer2First(script, typed1, typed2, found1, found2, stats1, stats2, selected, recent) ==
    IF typed2 # "" /\ found2.id = NoneId THEN <<PageItem("error", 2, typed2)>>
    ELSE IF found1.id = NoneId THEN <<PageItem("error", 1, typed1)>>
    ELSE ValidPlayersPage(script, typed1, typed2, ShownName(script, typed1, found1),
                          ShownName(script, typed2, found2),
                          stats1, stats2, found2.id # NoneId, selected, recent)

\* the if / elif / else under `if player1:`
AnalyzePage(script, typed1, typed2, found1, found2, stats1, stats2, selected, recent) ==
    IF found1.id = NoneId THEN <<PageItem("error", 1, typed1)>>
    ELSE IF typed2 # "" /\ found2.id = NoneId THEN <<PageItem("error", 2, typed2)>>
    ELSE ValidPlayersPage(script, typed1, typed2, ShownName(script, typed1, found1),
                          ShownName(script, typed2, found2),
                          stats1, stats2, found2.id # NoneId, selected, recent)

\* The user presses Analyze: the script runs with st.button returning True.
press_analyze ==
    /\ script_ok
    /\ button' = TRUE
    /\ IF player1 = ""
       THEN /\ page' = <<>>
            /\ player1_id' = NoneId
            /\ player2_id' = NoneId
            /\ player1_stats' = <<>>
            /\ player2_stats' = <<>>
       ELSE LET found1 == FindPlayerId(app, player1, 1)
                found2 == IF player2 # "" THEN FindPlayerId(app, player2, 1)
                          ELSE [id |-> NoneId, full_name |-> ""]
                valid == found1.id # NoneId /\ ~(player2 # "" /\ found2.id = NoneId)
                stats1 == IF valid
                          THEN GetRecentStats(app, game_logs[found1.id], num_games)
                          ELSE <<>>
                stats2 == IF valid /\ found2.id # NoneId
                          THEN GetRecentStats(app, game_logs[found2.id], num_games)
                          ELSE <<>>
            IN  /\ player1_id' = found1.id
                /\ player2_id' = found2.id
                /\ player1_stats' = stats1
                /\ player2_stats' = stats2
                /\ page' = AnalyzePage(app, player1, player2, found1, found2,
                                       stats1, stats2, selected_stats, recent_check)
    /\ UNCHANGED <<app, player1, player2, game_logs>>
    /\ UiUnchanged
    /\ FetchUnchanged
    /\ TrendUnchanged

\* The user edits a name input: the script runs again, the button not pressed.
type_player1(text) ==
    /\ text # player1
    /\ player1' = text
    /\ button' = FALSE
    /\ page' = <<>>
    /\ player1_id' = NoneId
    /\ player2_id' = NoneId
    /\ player1_stats' = <<>>
    /\ player2_stats' = <<>>
    /\ UNCHANGED <<app, player2, game_logs>>
    /\ UiUnchanged
    /\ FetchUnchanged
    /\ TrendUnchanged

type_player2(text) ==
    /\ text # player2
    /\ player2' = text
    /\ button' = FALSE
    /\ page' = <<>>
    /\ player1_id' = NoneId
    /\ player2_id' = NoneId
    /\ player1_stats' = <<>>
    /\ player2_stats' = <<>>
    /\ UNCHANGED <<app, player1, game_logs>>
    /\ UiUnchanged
    /\ FetchUnchanged
    /\ TrendUnchanged

\* the provider's logs a player can have: one game, or three and a playoff game
ShortLog == [reg |-> <<Row(1, 20, 1)>>, po |-> <<>>]
FullLog ==
    [reg |-> <<Row(3, 21, 1), Row(2, 20, 0), Row(1, 19, 1)>>, po |-> <<Row(4, 21, 0)>>]

InitAnalyze ==
    /\ UiAtStart
    /\ reg_df = <<>>
    /\ po_df = <<>>
    /\ player_stats = <<>>
    /\ fetched_by = "none"
    /\ NoAnalysis
    /\ app \in {"who_is_hot", "heat_check"}
    /\ player1 = ""
    /\ player2 = ""
    /\ player1_id = NoneId
    /\ player2_id = NoneId
    /\ game_logs \in [PlayerIds -> {ShortLog, FullLog}]
    /\ button = FALSE
    /\ page = <<>>
    /\ player1_stats = <<>>
    /\ player2_stats = <<>>

NextAnalyze ==
    \/ \E n \in NumGamesMin..NumGamesMax : move_num_games(n)
    \/ \E r \in RecentMin..NumGamesMax : move_recent_check(r)
    \/ \E text \in TextInputs : type_player1(text)
    \/ \E text \in TextInputs : type_player2(text)
    \/ press_analyze

SpecAnalyze == InitAnalyze /\ [][NextAnalyze]_vars

---------------------------------------------------------------------------
(* What the claims speak of, computed from player_stats alone *)

Analyzed == method # "none" /\ Len(player_stats) >= recent_check + 1
TooShort == method # "none" /\ Len(player_stats) < recent_check + 1

\* the bullets of a statistic in an output, and their labels
BulletsOf(out, s) == {i \in 1..Len(out) : out[i].kind = "markdown" /\ out[i].stat = s}
LabelsOf(out, s) == {out[i].label : i \in BulletsOf(out, s)}
Bullets(out) == {i \in 1..Len(out) : out[i].kind = "markdown"}
Headings(out) == {i \in 1..Len(out) : out[i].kind = "subheader"}

\* the windows by position: the last R rows and the rows before them
BaseN == Len(player_stats) - recent_check
RecN == recent_check
SpecBaseline == SubSeq(player_stats, 1, BaseN)
SpecRecent == SubSeq(player_stats, BaseN + 1, Len(player_stats))
BaseSum(s) == SumSeq([i \in 1..BaseN |-> player_stats[i][s]])
RecSum(s) == SumSeq([i \in 1..RecN |-> player_stats[BaseN + i][s]])
BaseSumSq(s) == SumSeq([i \in 1..BaseN |-> player_stats[i][s] * player_stats[i][s]])

\* recent_mean - baseline_mean = MeanGap / (RecN * BaseN)
MeanGap(s) == RecSum(s) * BaseN - BaseSum(s) * RecN
\* (recent_mean - baseline_mean) / baseline_mean > 1/20, for BaseSum > 0
PctAbove(s) == 20 * MeanGap(s) > BaseSum(s) * RecN
PctBelow(s) == 20 * MeanGap(s) < -(BaseSum(s) * RecN)
\* sample variance (n - 1 denominator) = VarNum / (BaseN * (BaseN - 1))
VarNum(s) == BaseN * BaseSumSq(s) - BaseSum(s) * BaseSum(s)
StdDefined(s) == BaseN >= 2 /\ VarNum(s) # 0
\* |recent_mean - baseline_mean| compared with the sample standard deviation
GapSq(s) == MeanGap(s) * MeanGap(s) * (BaseN - 1)
VarScaled(s) == VarNum(s) * RecN * RecN * BaseN
StdAbove(s) == MeanGap(s) > 0 /\ GapSq(s) > VarScaled(s)
StdBelow(s) == MeanGap(s) < 0 /\ GapSq(s) > VarScaled(s)

---------------------------------------------------------------------------
(* Claims *)

\* C1: with len(series) >= R + 1, every selected statistic has exactly one
\* label in the result and there are as many labels as selected statistics,
\* in both variants.
C1_EveryStatLabelledOnce ==
    Analyzed =>
        /\ Cardinality(Bullets(st_out)) = Len(selected_stats)
        /\ \A s \in Range(selected_stats) : Cardinality(BulletsOf(st_out, s)) = 1

\* C2: with len(series) < R + 1, analyze_trend gives the warning naming the
\* player and nothing else: no heading, no label, no averages.
C2_InsufficientData ==
    TooShort =>
        /\ outcome = "warning"
        /\ st_out = <<Warning(player_name)>>
        /\ player_name \in PlayerNames
        /\ Headings(st_out) = {} /\ Bullets(st_out) = {}
        /\ recent_games = <<>> /\ baseline_games = <<>>
        /\ recent_avg = <<>> /\ baseline_avg = <<>> /\ baseline_std = <<>>

C2_Witness ==
    /\ TooShort
    /\ Len(player_stats) = recent_check
    /\ selected_stats # <<>>
    /\ st_out # <<>>

\* C3: percentage variant: a selected statistic whose baseline mean is zero is
\* given the label Undetermined.
C3_ZeroMeanUndetermined ==
    (Analyzed /\ method = "pct") =>
        \A s \in Range(selected_stats) :
            BaseSum(s) = 0 => LabelsOf(st_out, s) = {"Undetermined"}

\* C4: standard-deviation variant: a selected statistic whose baseline sample
\* standard deviation is zero or undefined is given the label Undetermined.
C4_NoStdUndetermined ==
    (Analyzed /\ method = "std") =>
        \A s \in Range(selected_stats) :
            ~StdDefined(s) => LabelsOf(st_out, s) = {"Undetermined"}

\* C5: with len(series) >= R + 1 and R >= 1, the recent window is the last R
\* rows, the baseline the first len - R rows; both are non-empty and together
\* they are the series, each row once.
C5_Partition ==
    (Analyzed /\ recent_check >= 1) =>
        /\ recent_games = SpecRecent
        /\ baseline_games = SpecBaseline
        /\ Len(recent_games) = recent_check
        /\ Len(baseline_games) = Len(player_stats) - recent_check
        /\ Len(recent_games) >= 1 /\ Len(baseline_games) >= 1
        /\ baseline_games \o recent_games = player_stats

C5_Witness ==
    /\ Analyzed
    /\ Len(player_stats) = 4 /\ recent_check = 2
    /\ recent_games # baseline_games
    /\ recent_games = <<player_stats[3], player_stats[4]>>

C8_Independent ==
    Analyzed =>
        \A other \in Selections :
            \A s \in Range(selected_stats) \cap Range(other) :
                LabelsOf(st_out, s) =
                    LabelsOf(IF method = "pct"
                             THEN PctReport(player_stats, player_name, other, recent_check)
                             ELSE StdReport(player_stats, player_name, other, recent_check),
                             s)

\* two statistics selected, with different labels
C8_Witness ==
    /\ Analyzed
    /\ Len(selected_stats) = 2
    /\ LabelsOf(st_out, selected_stats[1]) # {}
    /\ LabelsOf(st_out, selected_stats[2]) # {}
    /\ LabelsOf(st_out, selected_stats[1]) # LabelsOf(st_out, selected_stats[2])

\* C9: for every position of the num_games slider (1 to 20) the recent_check
\* slider has a non-empty range holding its default, and the recent_check it
\* returns satisfies 1 <= recent_check <= num_games - 1.
C9_RecentWindowValid ==
    /\ SliderArgsValid(recent_slider)
    /\ recent_slider.value = Min(RecentDefault, num_games - 1)
    /\ script_ok => (1 <= recent_check /\ recent_check <= num_games - 1)

\* the games of both logs, and the k of them with the latest dates
AllGames == Range(reg_df) \cup Range(po_df)
LatestGames(k) ==
    {g \in AllGames : Cardinality({h \in AllGames : h.GAME_DATE > g.GAME_DATE}) < k}

\* C10: get_recent_stats returns min(num_games, total games) rows, exactly the
\* games of the combined log (regular season and playoffs) with the latest
\* dates, ordered oldest to newest.
C10_ValidGameSeries ==
    fetched_by # "none" =>
        LET k == Min(num_games, Cardinality(AllGames))
        IN  /\ Len(player_stats) = k
            /\ Range(player_stats) = LatestGames(k)
            /\ \A i, j \in 1..Len(player_stats) :
                  i < j => player_stats[i].GAME_DATE <= player_stats[j].GAME_DATE

---------------------------------------------------------------------------
(* The Analyze button: SpecAnalyze *)

TrendKinds == {"warning", "subheader", "markdown"}
\* positions on the page of the items of these kinds, for these players
ItemsOf(kinds, whos) ==
    {i \in 1..Len(page) : page[i].kind \in kinds /\ page[i].who \in whos}
Player1Found == player1_id # NoneId
Player2Found == player2_id # NoneId
Player2Entered == player2 # ""
\* a name that had to resolve did not
SomePlayerNotFound ==
    player1 # "" /\ (~Player1Found \/ (Player2Entered /\ ~Player2Found))

\* C11: after Analyze is pressed, statistics are fetched and trends analysed
\* only if player 1's name is non-empty and resolves and player 2's name is
\* empty or resolves; if player 1 is not found, or player 2 was entered and is
\* not found, exactly one "Player not found" error is shown, player 1's first,
\* and nothing is fetched, tabulated, analysed or charted for either player;
\* when both resolve, player 1's trend analysis comes before player 2's.
C11_AnalyzeGuarded ==
    button =>
        /\ ItemsOf({"fetch"} \cup TrendKinds, {1, 2}) # {} =>
               /\ player1 # ""
               /\ Player1Found
               /\ (~Player2Entered \/ Player2Found)
        /\ SomePlayerNotFound =>
               /\ Cardinality(ItemsOf({"error"}, {1, 2})) = 1
               /\ \A i \in ItemsOf({"error"}, {1, 2}) :
                      IF ~Player1Found
                      THEN page[i].who = 1 /\ page[i].player = player1
                      ELSE page[i].who = 2 /\ page[i].player = player2
               /\ ItemsOf({"fetch", "image", "table", "chart"} \cup TrendKinds, {1, 2}) = {}
               /\ player1_stats = <<>>
               /\ player2_stats = <<>>
        /\ (player1 # "" /\ Player1Found /\ Player2Entered /\ Player2Found) =>
               /\ ItemsOf({"fetch"}, {1}) # {}
               /\ ItemsOf({"fetch"}, {2}) # {}
               /\ ItemsOf(TrendKinds, {1}) # {}
               /\ ItemsOf(TrendKinds, {2}) # {}
               /\ \A i \in ItemsOf(TrendKinds, {1}) :
                      \A j \in ItemsOf(TrendKinds, {2}) : i < j

\* Analyze was pressed with two names entered and neither on the roster: the
\* page carries an error for player 1
C11_Witness ==
    /\ button
    /\ Player2Entered
    /\ ~Player1Found
    /\ ~Player2Found
    /\ player1 # ""
    /\ ItemsOf({"error"}, {1}) # {}

\* Analyze was pressed with two names on the roster: both trends are on the page
C11_BothAnalyzed ==
    /\ button
    /\ Player1Found
    /\ Player2Found
    /\ ItemsOf({"markdown"}, {1}) # {}
    /\ ItemsOf({"markdown"}, {2}) # {}

===========================================================================
